---- MODULE Spec2Model ----
(***************************************************************************)
(* A model of indeterminatebeam.Beam (src/indeterminatebeam/               *)
(* indeterminatebeam.py): the beam's ordered load list, its support list,  *)
(* its query points, its reaction map and result functions, and the        *)
(* operations add_loads, remove_loads, add_supports, remove_supports,      *)
(* analyse, get_reaction, add_query_points and remove_query_points.        *)
(*                                                                         *)
(* Python objects are modelled by an identity (id) and their attributes.   *)
(* None of Support and the load classes defines __eq__, __hash__, __iter__ *)
(* or __getitem__, so "==" and "in" compare identities, and unpacking or   *)
(* indexing a load object raises TypeError.                                *)
(***************************************************************************)
EXTENDS Integers, Sequences, FiniteSets, TLC

(* ------------------------------ bounds -------------------------------- *)
Span == 2
MaxLoads == 2
MaxArgs == 2
MaxQuery == 1
MaxStiffness == 2

(* ------------------------- program constants -------------------------- *)
\* sympy's oo, the stiffness of a rigid channel
oo == 1000000

\* Beam.__init__: the beam runs from _x0 = 0 to _x1 = span
_x0 == 0
_x1 == Span

(* ------------------------------ Support ------------------------------- *)
\* Support.__init__ with lines 119-122 left out: kx and ky are ignored
Support_without_springs(id, coord, fixed, kx, ky) ==
    LET stiff == [i \in 1..3 |-> IF fixed[i] # 0 THEN oo ELSE 0]
    IN  [id         |-> id,
         _position  |-> coord,
         _stiffness |-> stiff,
         _DOF       |-> [i \in 1..3 |-> IF stiff[i] # 0 THEN 1 ELSE 0],
         _fixed     |-> [i \in 1..3 |-> IF stiff[i] = oo THEN 1 ELSE 0],
         fixed      |-> fixed,
         kx         |-> kx,
         ky         |-> ky]

\* Support.__init__: kx, ky = 0 stand for "not given" (None and 0 are both
\* falsy in "if kx:")
Support(id, coord, fixed, kx, ky) ==
    LET byflag == [i \in 1..3 |-> IF fixed[i] # 0 THEN oo ELSE 0]
        withkx == IF kx # 0 THEN [byflag EXCEPT ![1] = kx] ELSE byflag
        stiff  == IF ky # 0 THEN [withkx EXCEPT ![2] = ky] ELSE withkx
    IN  [id         |-> id,
         _position  |-> coord,
         _stiffness |-> stiff,
         _DOF       |-> [i \in 1..3 |-> IF stiff[i] # 0 THEN 1 ELSE 0],
         _fixed     |-> [i \in 1..3 |-> IF stiff[i] = oo THEN 1 ELSE 0],
         fixed      |-> fixed,
         kx         |-> kx,
         ky         |-> ky]

\* The Support objects the caller has constructed. Objects 1 and 2 are two
\* distinct objects built from the same parameters; 4 is a pin at the left
\* end and 3 a roller at the right end; 6 is a spring support and 5 restrains
\* the axial channel and the rotation to its right.
SupportPool ==
    { Support(1, 0,        <<1, 1, 1>>, 0, 0),
      Support(2, 0,        <<1, 1, 1>>, 0, 0),
      Support(3, Span,     <<0, 1, 0>>, 0, 0),
      Support(4, 0,        <<1, 1, 0>>, 0, 0),
      Support(5, Span,     <<1, 0, 1>>, 0, 0),
      Support(6, 1,        <<0, 0, 0>>, 3, 5),
      Support(7, Span + 1, <<1, 1, 0>>, 0, 0) }

SupportIds == { s.id : s \in SupportPool }

\* the supports a caller passes several at a time in one call
SupportsPassedTogether == {1, 5}

Sup(id) == CHOOSE s \in SupportPool : s.id = id

\* isinstance(support, Support)
IsSupport(id) == id \in SupportIds

(* ------------------------------- loads -------------------------------- *)
\* A load object: the module and class it was built from and its
\* constructor parameters. A point load or torque has coord, a distributed
\* load has span; angle is 0 or 90.
Load(id, module, cls, force, coord, span, angle) ==
    [id |-> id, module |-> module, cls |-> cls, force |-> force,
     coord |-> coord, span |-> span, angle |-> angle]

\* The load objects the caller has constructed. Objects 13 and 14 are two
\* distinct objects built from the same parameters.
LoadPool ==
    { Load(11, "indeterminatebeam", "PointLoad", -10, 1, <<1, 1>>, 90),
      Load(12, "indeterminatebeam", "UDL",         4, 0, <<0, Span>>, 90),
      Load(13, "loading",           "PointLoad", -10, 1, <<1, 1>>, 90),
      Load(14, "loading",           "PointLoad", -10, 1, <<1, 1>>, 90),
      Load(15, "loading",           "PointLoad",   6, Span + 1,
                                                 <<Span + 1, Span + 1>>, 90),
      Load(16, "loading",           "PointLoad",  -5, Span, <<Span, Span>>, 90),
      Load(17, "loading",           "UDL",         4, 0, <<0, Span>>, 90),
      Load(18, "indeterminatebeam", "DistributedLoadV", 4, 0, <<0, Span>>, 90),
      Load(19, "indeterminatebeam", "DistributedLoad",  4, 0, <<0, Span>>, 0) }

LoadIds == { l.id : l \in LoadPool }

\* the loads a caller passes several at a time in one call
LoadsPassedTogether == {11, 13}

Ld(id) == CHOOSE l \in LoadPool : l.id = id

(* ------------------------------ helpers ------------------------------- *)
Range(s) == { s[i] : i \in 1..Len(s) }

\* index of the first element of s equal to e (e must occur in s)
FirstIndex(s, e) == CHOOSE i \in 1..Len(s) : s[i] = e /\ \A j \in 1..(i - 1) : s[j] # e

RemoveAt(s, i) == SubSeq(s, 1, i - 1) \o SubSeq(s, i + 1, Len(s))

\* list.remove(e) for an e that occurs in the list
ListRemove(s, e) == RemoveAt(s, FirstIndex(s, e))

\* sequences over S of length 1..n
RECURSIVE SeqsUpTo(_, _)
SeqsUpTo(S, n) ==
    IF n = 0 THEN { <<>> }
    ELSE LET shorter == SeqsUpTo(S, n - 1)
         IN  shorter \cup { Append(q, e) : q \in shorter, e \in S }

\* The argument lists of a variadic call: any one object of S, or up to
\* MaxArgs objects of the smaller set S2.
ArgLists(S, S2) == { <<e>> : e \in S } \cup (SeqsUpTo(S2, MaxArgs) \ { <<>> })
ArgListsOrNone(S, S2) == ArgLists(S, S2) \cup { <<>> }

None == <<>>

\* What a call hands back: the exception raised and the source line that
\* raises it, or the returned object (obj names its type, val its content).
Returned(obj, val) == [exc |-> "none", at |-> 0, obj |-> obj, val |-> val]
Raised(exc, line) == [exc |-> exc, at |-> line, obj |-> "None", val |-> None]
ReturnedNone == Returned("None", None)

(* ------------------------------- state -------------------------------- *)
VARIABLES
    _loads,       \* Beam._loads: list of load objects (ids)
    _supports,    \* Beam._supports: list of Support objects (ids)
    _query,       \* Beam._query: list of query coordinates
    _reactions,   \* Beam._reactions: position -> <<x, y, m>>
    _results,     \* the result functions: "unset" until analyse() stores them
    _determinancy, \* Beam._determinancy: "unset" until check_determinancy sets it
    _distributed_forces_x, \* Beam._distributed_forces_x: load -> its integrals
    _distributed_forces_y, \* Beam._distributed_forces_y: load -> its integrals
    analysed,     \* history: an analyse() call has returned without raising
    call,         \* history: the last call and its arguments
    ret           \* history: what the last call returned or raised

beam == <<_loads, _supports, _query, _reactions, _results, _determinancy,
          _distributed_forces_x, _distributed_forces_y>>
vars == <<_loads, _supports, _query, _reactions, _results, _determinancy,
          _distributed_forces_x, _distributed_forces_y, analysed, call, ret>>

Call(op, args, all, x, dir) ==
    [op |-> op, args |-> args, all |-> all, x |-> x, dir |-> dir]

\* between two calls: no call is recorded
NoCall == Call("none", <<>>, FALSE, 0, "")

\* Beam.__init__
Init ==
    /\ _loads = <<>>
    /\ _supports = <<>>
    /\ _query = <<>>
    /\ _reactions = [p \in {} |-> <<0, 0, 0>>]
    /\ _results = "unset"
    /\ _determinancy = "unset"
    /\ _distributed_forces_x = [l \in {} |-> <<>>]
    /\ _distributed_forces_y = [l \in {} |-> <<>>]
    /\ analysed = FALSE
    /\ call = NoCall
    /\ ret = ReturnedNone

(* ------------------------------ add_loads ----------------------------- *)
\* isinstance(load, (DistributedLoad, UDL, TrapezoidalLoad))
IsDistributedClass(l) ==
    /\ Ld(l).module = "indeterminatebeam"
    /\ Ld(l).cls \in {"DistributedLoad", "DistributedLoadV", "DistributedLoadH",
                      "UDL", "TrapezoidalLoad"}

\* isinstance(load, (PointTorque, PointLoad))
IsPointClass(l) ==
    /\ Ld(l).module = "indeterminatebeam"
    /\ Ld(l).cls \in {"PointTorque", "PointLoad", "PointLoadV", "PointLoadH"}

\* "left, right = load" needs load.__iter__, "load[1]" needs
\* load.__getitem__: no load class defines either.
Iterable(l) == FALSE
Subscriptable(l) == FALSE

\* the body of the loop of add_loads up to the append: what it raises for
\* one load, if anything
add_loads_check(l) ==
    IF IsDistributedClass(l)
    THEN IF ~Iterable(l) THEN Raised("TypeError", 480)
         ELSE IF _x0 > Ld(l).span[1] \/ Ld(l).span[2] > _x1
              THEN Raised("ValueError", 483)
              ELSE ReturnedNone
    ELSE IF IsPointClass(l)
    THEN IF ~Subscriptable(l) THEN Raised("TypeError", 488)
         ELSE IF _x0 > Ld(l).coord \/ Ld(l).coord > _x1
              THEN Raised("ValueError", 491)
              ELSE ReturnedNone
    ELSE ReturnedNone

\* add_loads validating every load before appending any
add_loads_all_or_none(lds, args, i) ==
    LET bad == { j \in i..Len(args) : add_loads_check(args[j]).exc # "none" }
    IN  IF bad = {}
        THEN [loads |-> lds \o SubSeq(args, i, Len(args)), ret |-> ReturnedNone]
        ELSE [loads |-> lds,
              ret |-> add_loads_check(
                          args[CHOOSE j \in bad : \A k \in bad : j <= k])]

\* for load in loads: ... self._loads.append(load)
RECURSIVE add_loads_from(_, _, _)
add_loads_from(lds, args, i) ==
    IF i > Len(args) THEN [loads |-> lds, ret |-> ReturnedNone]
    ELSE LET r == add_loads_check(args[i])
         IN  IF r.exc # "none" THEN [loads |-> lds, ret |-> r]
             ELSE add_loads_from(Append(lds, args[i]), args, i + 1)

add_loads ==
    \E args \in ArgLists(LoadIds, LoadsPassedTogether) :
        LET r == add_loads_from(_loads, args, 1)
        IN  /\ call = NoCall
            /\ Len(r.loads) <= MaxLoads
            /\ _loads' = r.loads
            /\ ret' = r.ret
            /\ call' = Call("add_loads", args, FALSE, 0, "")
            /\ UNCHANGED <<_supports, _query, _reactions, _results,
                     _determinancy,
                     _distributed_forces_x, _distributed_forces_y, analysed>>

(* ----------------------------- remove_loads --------------------------- *)
\* remove_load without the membership test: list.remove of an absent element
\* raises ValueError
remove_load_unguarded(lds, l) ==
    IF l \in Range(lds)
    THEN [loads |-> ListRemove(lds, l), ret |-> ReturnedNone]
    ELSE [loads |-> lds, ret |-> Raised("ValueError", 527)]

\* remove_load taking every occurrence of the load off the list
remove_load_every(lds, l) ==
    [loads |-> SelectSeq(lds, LAMBDA e : e # l), ret |-> ReturnedNone]

\* if load in self._loads: self._loads.remove(load)
remove_load(lds, l) ==
    IF l \in Range(lds)
    THEN [loads |-> ListRemove(lds, l), ret |-> ReturnedNone]
    ELSE [loads |-> lds, ret |-> ReturnedNone]

RECURSIVE remove_loads_from(_, _, _)
remove_loads_from(lds, args, i) ==
    IF i > Len(args) THEN [loads |-> lds, ret |-> ReturnedNone]
    ELSE LET r == remove_load(lds, args[i])
         IN  IF r.ret.exc # "none" THEN r
             ELSE remove_loads_from(r.loads, args, i + 1)

\* the loads passed along with remove_all=True
RemoveAllArgs == { <<>>, <<13>> }

remove_loads ==
    \E args \in ArgListsOrNone(LoadIds, LoadsPassedTogether), remove_all \in BOOLEAN :
        LET r == IF remove_all
                 THEN [loads |-> <<>>, ret |-> ReturnedNone]
                 ELSE remove_loads_from(_loads, args, 1)
        IN  /\ call = NoCall
            /\ remove_all => args \in RemoveAllArgs
            /\ _loads' = r.loads
            /\ ret' = r.ret
            /\ call' = Call("remove_loads", args, remove_all, 0, "")
            /\ UNCHANGED <<_supports, _query, _reactions, _results,
                     _determinancy,
                     _distributed_forces_x, _distributed_forces_y, analysed>>

(* ----------------------------- add_supports --------------------------- *)
\* (self._x0 > support._position) or (support._position > self._x1)
not_on_beam(s) == _x0 > Sup(s)._position \/ Sup(s)._position > _x1

\* position_taken comparing the objects instead of their positions
position_taken_by_identity(sups, s) == s \in Range(sups)

\* support._position in [x._position for x in self._supports]
position_taken(sups, s) ==
    Sup(s)._position \in { Sup(sups[k])._position : k \in 1..Len(sups) }

\* for support in supports: ... self._supports.append(support)
RECURSIVE add_supports_from(_, _, _)
add_supports_from(sups, args, i) ==
    IF i > Len(args) THEN [supports |-> sups, ret |-> ReturnedNone]
    ELSE LET s == args[i]
         IN  IF ~IsSupport(s)
             THEN [supports |-> sups, ret |-> Raised("TypeError", 545)]
             ELSE IF not_on_beam(s)
             THEN [supports |-> sups, ret |-> Raised("ValueError", 549)]
             ELSE IF sups = <<>>
             THEN add_supports_from(Append(sups, s), args, i + 1)
             ELSE IF ~position_taken(sups, s)
             THEN add_supports_from(Append(sups, s), args, i + 1)
             ELSE [supports |-> sups, ret |-> Raised("ValueError", 559)]

\* an argument of add_supports that is no Support: a load object
NotASupport == CHOOSE l \in LoadIds : Ld(l).module = "loading" /\ Ld(l).coord <= Span

add_supports ==
    \E args \in ArgLists(SupportIds \cup {NotASupport}, SupportsPassedTogether) :
        LET r == add_supports_from(_supports, args, 1)
        IN  /\ call = NoCall
            /\ _supports' = r.supports
            /\ ret' = r.ret
            /\ call' = Call("add_supports", args, FALSE, 0, "")
            /\ UNCHANGED <<_loads, _query, _reactions, _results,
                     _determinancy,
                     _distributed_forces_x, _distributed_forces_y, analysed>>

(* ---------------------------- remove_supports ------------------------- *)
\* if support in supports: self._supports.remove(support)
remove_support(sups, s, args) ==
    IF s \in Range(args) THEN ListRemove(sups, s) ELSE sups

\* for support in self._supports: the list iterator holds an index into the
\* list that remove() is shrinking
RECURSIVE remove_supports_from(_, _, _)
remove_supports_from(sups, args, i) ==
    IF i > Len(sups) THEN sups
    ELSE remove_supports_from(remove_support(sups, sups[i], args), args, i + 1)

remove_supports ==
    \E args \in ArgListsOrNone(SupportIds, SupportsPassedTogether), remove_all \in BOOLEAN :
        /\ call = NoCall
        /\ remove_all => args = <<>>
        /\ _supports' = IF remove_all THEN <<>>
                        ELSE remove_supports_from(_supports, args, 1)
        /\ ret' = ReturnedNone
        /\ call' = Call("remove_supports", args, remove_all, 0, "")
        /\ UNCHANGED <<_loads, _query, _reactions, _results,
                     _determinancy,
                     _distributed_forces_x, _distributed_forces_y, analysed>>

(* -------------------------------- analyse ----------------------------- *)
\* unknowns_x, unknowns_y, unknowns_m: the supports (in list order) whose
\* stiffness in that channel is not 0
unknowns_x(sups) == SelectSeq(sups, LAMBDA s : Sup(s)._stiffness[1] # 0)
unknowns_y(sups) == SelectSeq(sups, LAMBDA s : Sup(s)._stiffness[2] # 0)
unknowns_m(sups) == SelectSeq(sups, LAMBDA s : Sup(s)._stiffness[3] # 0)

unknowns_xx(sups) == unknowns_x(sups)
unknowns_ym(sups) == unknowns_y(sups) \o unknowns_m(sups)

\* x_0: the keys of unknowns_x (the positions of the supports with an axial
\* restraint), sorted
RECURSIVE sorted(_)
sorted(P) ==
    IF P = {} THEN <<>>
    ELSE LET least == CHOOSE p \in P : \A q \in P : p <= q
         IN  <<least>> \o sorted(P \ {least})
x_0(sups) == sorted({ Sup(s)._position : s \in Range(unknowns_x(sups)) })

\* start_x = x_0[0]
start_x(sups) == x_0(sups)[1]

\* the support whose unknown is unknowns_x[start_x][0], the reaction in the
\* compatibility equations of the axial supports
compatibility_reference(sups) ==
    CHOOSE s \in Range(unknowns_x(sups)) : Sup(s)._position = start_x(sups)

\* the support whose solved reaction is solutions_xx[0]: linsolve answers in
\* the order of unknowns_xx, the order of unknowns_x.values(), which is the
\* order of the supports in self._supports
solutions_xx_0(sups) == unknowns_xx(sups)[1]

\* initial_displacement_x: 0 for a rigid support at start_x, else
\* solutions_xx[0] / unknowns_x[start_x][1], given as the support whose
\* reaction is divided and the stiffness it is divided by
initial_displacement_x(sups) ==
    LET k == Sup(compatibility_reference(sups))._stiffness[1]
    IN  IF k = oo THEN [zero |-> TRUE, reaction_of |-> 0, stiffness |-> oo]
        ELSE [zero |-> FALSE, reaction_of |-> solutions_xx_0(sups),
              stiffness |-> k]

\* the restraint checks with one y or m restraint accepted
determinacy_error_one_ym(sups) ==
    IF Len(unknowns_xx(sups)) < 1 THEN Raised("ValueError", 671)
    ELSE IF Len(unknowns_ym(sups)) < 1 THEN Raised("ValueError", 676)
    ELSE ReturnedNone

\* the two restraint checks of analyse
determinacy_error(sups) ==
    IF Len(unknowns_xx(sups)) < 1 THEN Raised("ValueError", 671)
    ELSE IF Len(unknowns_ym(sups)) < 2 THEN Raised("ValueError", 676)
    ELSE ReturnedNone

\* load._x and load._y are attributes of the load classes of
\* indeterminatebeam.py only (loading.py sets _x0, _y0, _x1, _y1, _m0)
has_x_y(l) == Ld(l).module = "indeterminatebeam"

\* Beam._point_loads_x, _point_loads_y and _point_torques are called by
\* analyse and exist only as commented-out text: the attribute lookup fails
has_point_loads_x == FALSE

\* What analyse() raises. After the restraint checks it reads load._x of
\* every load (F_Rx), then builds N_i, whose second sum calls
\* self._point_loads_x(): no call gets past that line, so the equations are
\* never assembled or solved and nothing is stored.
analyse_raises(sups, lds) ==
    LET d == determinacy_error(sups)
    IN  IF d.exc # "none" THEN d
        ELSE IF \E i \in 1..Len(lds) : ~has_x_y(lds[i])
        THEN Raised("AttributeError", 686)
        ELSE IF ~has_point_loads_x THEN Raised("AttributeError", 708)
        ELSE ReturnedNone

\* self._reactions after a call that raises, with the map of zeros of line
\* 868 built before the restraint checks
reactions_zeroed_first(reactions, sups) ==
    [p \in { Sup(s)._position : s \in Range(sups) } |-> <<0, 0, 0>>]

\* self._reactions after a call that raises: every raise comes before line
\* 868, the first assignment to self._reactions, so the map is as it was
reactions_when_analyse_raises(reactions, sups) == reactions

analyse ==
    LET r == analyse_raises(_supports, _loads)
    IN  /\ call = NoCall
        /\ r.exc # "none"
        /\ _reactions' = reactions_when_analyse_raises(_reactions, _supports)
        /\ ret' = r
        /\ call' = Call("analyse", <<>>, FALSE, 0, "")
        /\ UNCHANGED <<_loads, _supports, _query, _results, _determinancy,
                       _distributed_forces_x, _distributed_forces_y, analysed>>

(* --------------------------- check_determinancy ----------------------- *)
\* the sum of the _DOF lists of the supports
RECURSIVE sum_DOF(_)
sum_DOF(sups) ==
    IF sups = <<>> THEN <<0, 0, 0>>
    ELSE LET rest == sum_DOF(Tail(sups))
         IN  [i \in 1..3 |-> Sup(Head(sups))._DOF[i] + rest[i]]

\* equations: 3, less one for each of x and y that no support restrains
equations(unknowns) ==
    3 - (IF unknowns[1] = 0 THEN 1 ELSE 0) - (IF unknowns[2] = 0 THEN 1 ELSE 0)

\* what check_determinancy returns: a ValueError object (returned, not
\* raised) when there is no unknown or fewer unknowns than equations
check_determinancy_result(sups) ==
    LET unknowns == sum_DOF(sups)
        total == unknowns[1] + unknowns[2] + unknowns[3]
    IN  IF total = 0 THEN Returned("ValueError", <<>>)
        ELSE IF total < equations(unknowns) THEN Returned("ValueError", <<>>)
        ELSE Returned("number", <<total - equations(unknowns)>>)

check_determinancy ==
    LET r == check_determinancy_result(_supports)
    IN  /\ call = NoCall
        /\ ret' = r
        /\ _determinancy' = IF r.obj = "number" THEN r.val[1] ELSE _determinancy
        /\ call' = Call("check_determinancy", <<>>, FALSE, 0, "")
        /\ UNCHANGED <<_loads, _supports, _query, _reactions, _results,
                     _distributed_forces_x, _distributed_forces_y, analysed>>

(* ------------------------------ get_reaction -------------------------- *)
\* data_validation.assert_positive_number passes for a number >= 0
assert_positive_number(n) == n >= 0

directions == <<"x", "y", "m">>

\* get_reaction answering zeros where the map has no entry
get_reaction_result_zeros(reactions, x_coord, direction) ==
    IF ~assert_positive_number(x_coord) THEN Raised("ValueError", 941)
    ELSE IF x_coord \notin DOMAIN reactions THEN Returned("list", <<0, 0, 0>>)
    ELSE Returned("list", reactions[x_coord])

\* the body of get_reaction
get_reaction_result(reactions, x_coord, direction) ==
    IF ~assert_positive_number(x_coord) THEN Raised("ValueError", 941)
    ELSE IF x_coord \notin DOMAIN reactions THEN ReturnedNone
    ELSE IF direction # ""
    THEN IF direction \notin Range(directions)
         THEN Raised("ValueError", 950)
         ELSE Returned("number",
                       <<reactions[x_coord][FirstIndex(directions, direction)]>>)
    ELSE Returned("list", reactions[x_coord])

get_reaction ==
    \E x_coord \in (-1)..(Span + 1), direction \in {"", "y"} :
        /\ call = NoCall
        /\ ret' = get_reaction_result(_reactions, x_coord, direction)
        /\ call' = Call("get_reaction", <<>>, FALSE, x_coord, direction)
        /\ UNCHANGED <<_loads, _supports, _query, _reactions, _results,
                     _determinancy,
                     _distributed_forces_x, _distributed_forces_y, analysed>>

(* ----------------------------- query points --------------------------- *)
\* add_query_points passing over a coordinate outside the beam and going on
RECURSIVE add_query_points_skipping(_, _, _)
add_query_points_skipping(q, args, i) ==
    IF i > Len(args) THEN [query |-> q, ret |-> ReturnedNone]
    ELSE IF _x0 <= args[i] /\ args[i] <= _x1
         THEN add_query_points_skipping(Append(q, args[i]), args, i + 1)
         ELSE add_query_points_skipping(q, args, i + 1)

\* for x_coord in x_coords: append, or return (not raise) a ValueError
RECURSIVE add_query_points_from(_, _, _)
add_query_points_from(q, args, i) ==
    IF i > Len(args) THEN [query |-> q, ret |-> ReturnedNone]
    ELSE IF _x0 <= args[i] /\ args[i] <= _x1
         THEN add_query_points_from(Append(q, args[i]), args, i + 1)
         ELSE [query |-> q, ret |-> Returned("ValueError", None)]

add_query_points ==
    \E args \in ArgLists({0, Span + 1}, {0, Span + 1}) :
        LET r == add_query_points_from(_query, args, 1)
        IN  /\ call = NoCall
            /\ Len(r.query) <= MaxQuery
            /\ _query' = r.query
            /\ ret' = r.ret
            /\ call' = Call("add_query_points", args, FALSE, 0, "")
            /\ UNCHANGED <<_loads, _supports, _reactions, _results,
                     _determinancy,
                     _distributed_forces_x, _distributed_forces_y, analysed>>

RECURSIVE remove_query_points_from(_, _, _)
remove_query_points_from(q, args, i) ==
    IF i > Len(args) THEN [query |-> q, ret |-> ReturnedNone]
    ELSE IF args[i] \in Range(q)
         THEN remove_query_points_from(ListRemove(q, args[i]), args, i + 1)
         ELSE [query |-> q, ret |-> Returned("ValueError", None)]

remove_query_points ==
    \E args \in ArgListsOrNone({0, Span + 1}, {0, Span + 1}), remove_all \in BOOLEAN :
        LET r == IF remove_all
                 THEN [query |-> <<>>, ret |-> ReturnedNone]
                 ELSE remove_query_points_from(_query, args, 1)
        IN  /\ call = NoCall
            /\ remove_all => args = <<>>
            /\ _query' = r.query
            /\ ret' = r.ret
            /\ call' = Call("remove_query_points", args, remove_all, 0, "")
            /\ UNCHANGED <<_loads, _supports, _reactions, _results,
                     _determinancy,
                     _distributed_forces_x, _distributed_forces_y, analysed>>

(* ----------------------- _update_distributed_loads -------------------- *)
\* isinstance(load, cls) for the classes of indeterminatebeam.py;
\* DistributedLoadV and DistributedLoadH are subclasses of DistributedLoad
IsInstance(l, cls) ==
    /\ Ld(l).module = "indeterminatebeam"
    /\ \/ Ld(l).cls = cls
       \/ cls = "DistributedLoad"
            /\ Ld(l).cls \in {"DistributedLoadV", "DistributedLoadH"}

\* one branch of _update_distributed_loads on one of the two dicts: a load
\* that is not a key is to be stored with self._create_distributed_force(load),
\* which raises at its first line for a load object (it unpacks its
\* argument), before anything is assigned; a load that is a key is popped
update_forces(forces, l, remove) ==
    IF ~remove /\ l \notin DOMAIN forces
    THEN [forces |-> forces, ret |-> Raised("TypeError", 2007)]
    ELSE IF remove /\ l \in DOMAIN forces
    THEN [forces |-> [k \in DOMAIN forces \ {l} |-> forces[k]],
          ret |-> ReturnedNone]
    ELSE [forces |-> forces, ret |-> ReturnedNone]

\* _update_distributed_loads: a DistributedLoadV goes to the y dict, a
\* DistributedLoadH to the x dict; any other DistributedLoad is unpacked
\* ("force, position, angle = load"), which raises; a load of another class
\* is left alone
_update_distributed_loads(fx, fy, l, remove) ==
    IF IsInstance(l, "DistributedLoadV")
    THEN LET u == update_forces(fy, l, remove)
         IN  [x |-> fx, y |-> u.forces, ret |-> u.ret]
    ELSE IF IsInstance(l, "DistributedLoadH")
    THEN LET u == update_forces(fx, l, remove)
         IN  [x |-> u.forces, y |-> fy, ret |-> u.ret]
    ELSE IF IsInstance(l, "DistributedLoad")
    THEN [x |-> fx, y |-> fy, ret |-> Raised("TypeError", 1971)]
    ELSE [x |-> fx, y |-> fy, ret |-> ReturnedNone]

\* the loads _update_distributed_loads is called with: one of each kind
LoadsUpdated == {13, 17, 18, 19}

update_distributed_loads ==
    \E l \in LoadsUpdated, remove \in BOOLEAN :
        LET u == _update_distributed_loads(_distributed_forces_x,
                                           _distributed_forces_y, l, remove)
        IN  /\ call = NoCall
            /\ _distributed_forces_x' = u.x
            /\ _distributed_forces_y' = u.y
            /\ ret' = u.ret
            /\ call' = Call("_update_distributed_loads", <<l>>, remove, 0, "")
            /\ UNCHANGED <<_loads, _supports, _query, _reactions, _results,
                           _determinancy, analysed>>

(* ------------------------------- caller ------------------------------- *)
\* the caller has taken the result of the last call and goes on to the next
caller_continues ==
    /\ call # NoCall
    /\ call' = NoCall
    /\ ret' = ReturnedNone
    /\ UNCHANGED <<_loads, _supports, _query, _reactions, _results,
                     _determinancy,
                     _distributed_forces_x, _distributed_forces_y, analysed>>

(* ---------------------------- specification --------------------------- *)
Next ==
    \/ add_loads
    \/ remove_loads
    \/ add_supports
    \/ remove_supports
    \/ analyse
    \/ get_reaction
    \/ add_query_points
    \/ remove_query_points
    \/ update_distributed_loads
    \/ caller_continues

Spec == Init /\ [][Next]_vars

(* ------------------- specification of check_determinancy -------------- *)
\* check_determinancy reads the support list only and writes _determinancy
\* only, which no other method reads: it is checked together with the two
\* methods that change the support list.
NextDeterminancy ==
    \/ add_supports
    \/ remove_supports
    \/ check_determinancy
    \/ caller_continues

SpecDeterminancy == Init /\ [][NextDeterminancy]_vars

(* ----------------------- constructing a Support ---------------------- *)
\* the fixed tuples a caller passes: the eight tuples of flags, a tuple that
\* is too short and a tuple with a value that is no flag
FixedTuples == [1..3 -> {0, 1}] \cup { <<1, 1>>, <<2, 1, 1>> }

\* Support.__init__ with its input validation: what the constructor call
\* raises, or the object it builds
Support__init__(coord, fixed, kx, ky) ==
    IF ~assert_positive_number(coord) THEN Raised("ValueError", 96)
    ELSE IF kx # 0 /\ ~assert_positive_number(kx) THEN Raised("ValueError", 99)
    ELSE IF ky # 0 /\ ~assert_positive_number(ky) THEN Raised("ValueError", 101)
    ELSE IF \E i \in 1..Len(fixed) : fixed[i] \notin {0, 1}
    THEN Raised("ValueError", 105)
    ELSE IF Len(fixed) # 3 THEN Raised("ValueError", 110)
    ELSE Returned("Support", Support(0, coord, fixed, kx, ky))

\* kx and ky default to None; given says which of them the caller passes. A
\* stiffness that is not passed reaches "if kx:" as None, falsy as 0 is
new_Support ==
    \E coord \in (-1)..Span, fixed \in FixedTuples,
       kx \in (-1)..MaxStiffness, ky \in (-1)..MaxStiffness,
       given \in BOOLEAN \X BOOLEAN :
        /\ call = NoCall
        /\ ~given[1] => kx = 0
        /\ ~given[2] => ky = 0
        /\ ret' = Support__init__(coord, fixed, kx, ky)
        /\ call' = Call("Support", <<coord, fixed, kx, ky, given>>, FALSE, 0, "")
        /\ UNCHANGED <<_loads, _supports, _query, _reactions, _results,
                     _determinancy,
                     _distributed_forces_x, _distributed_forces_y, analysed>>

(* --------------------------- sympy expressions ------------------------ *)
\* Numbers are held in units of 1/Unit, so that the slopes and the integrals
\* of the expressions used here stay whole.
Unit == 2 * 3 * 4 * 5

\* An expression in x is a sum of terms: a map from a term's shape to its
\* coefficient (never 0). A shape <<TRUE, a, n>> is
\* SingularityFunction(x, a, n), a shape <<FALSE, 0, n>> is x**n.
Zero == [k \in {} |-> 0]
Term(c, sing, a, n) == IF c = 0 THEN Zero ELSE [k \in {<<sing, a, n>>} |-> c]
SingularityFunction(a, n) == Term(Unit, TRUE, a, n)
Coef(e, k) == IF k \in DOMAIN e THEN e[k] ELSE 0

\* e + f
Plus(e, f) ==
    LET K == { k \in DOMAIN e \cup DOMAIN f : Coef(e, k) + Coef(f, k) # 0 }
    IN  [k \in K |-> Coef(e, k) + Coef(f, k)]

\* q * e for a number q given in units of 1/Unit
Times(q, e) ==
    IF q = 0 THEN Zero ELSE [k \in DOMAIN e |-> (q * e[k]) \div Unit]

\* e * x, for an e without singularity functions
TimesX(e) ==
    [k \in { <<FALSE, 0, j[3] + 1>> : j \in DOMAIN e } |-> e[<<FALSE, 0, k[3] - 1>>]]

\* integrate(e, x): <x-a>**n becomes <x-a>**(n+1)/(n+1) for n >= 0 and
\* <x-a>**(n+1) for n < 0; x**n becomes x**(n+1)/(n+1)
integrate(e) ==
    [k \in { <<j[1], j[2], j[3] + 1>> : j \in DOMAIN e } |->
        LET c == e[<<k[1], k[2], k[3] - 1>>]
        IN  IF k[3] <= 0 THEN c ELSE c \div k[3]]

RECURSIVE Power(_, _)
Power(b, n) == IF n = 0 THEN 1 ELSE b * Power(b, n - 1)

\* the value of one shape at x (the value of <x-a>**-1 at x = a is oo)
ShapeAt(k, at) ==
    IF ~k[1] THEN Power(at, k[3])
    ELSE IF at < k[2] THEN 0
    ELSE IF k[3] < 0 THEN (IF at = k[2] THEN oo ELSE 0)
    ELSE Power(at - k[2], k[3])

\* e.subs(x, at), in units of 1/Unit
RECURSIVE SumTerms(_, _, _)
SumTerms(e, K, at) ==
    IF K = {} THEN 0
    ELSE LET k == CHOOSE j \in K : TRUE
         IN  e[k] * ShapeAt(k, at) + SumTerms(e, K \ {k}, at)
subs(e, at) == SumTerms(e, DOMAIN e, at)

\* integrate(e, (x, lo, hi)) for an e without singularity functions
integrate_between(e, lo, hi) == subs(integrate(e), hi) - subs(integrate(e), lo)

(* ------------------------- the angle of a load ------------------------ *)
\* angles a caller passes, in degrees
Angles == {0, 90}

\* cos(radians(angle)) and sin(radians(angle)), rounded as the constructors
\* round them before testing them against 0 (cos of 90 degrees is 6e-17)
cos(angle) == IF angle = 0 THEN 1 ELSE 0
sin(angle) == IF angle = 90 THEN 1 ELSE 0

\* data_validation: a number > 0 passes, a sequence of that length passes
assert_strictly_positive_number(n) == n > 0
assert_length(seq, n) == Len(seq) = n

\* a whole number in units of 1/Unit
Scaled(n) == n * Unit

(* ------------------------ the loads of loading.py --------------------- *)
\* Load._add_load_functions: the directional intensities _x0, _y0 and their
\* integrals _x1, _y1
_add_load_functions(angle, expr) ==
    LET force_x == cos(angle)
        force_y == sin(angle)
        x0 == IF force_x # 0 THEN Times(Scaled(force_x), expr) ELSE Zero
        y0 == IF force_y # 0 THEN Times(Scaled(force_y), expr) ELSE Zero
    IN  [_x0 |-> x0, _y0 |-> y0, _x1 |-> integrate(x0), _y1 |-> integrate(y0)]

\* the attributes of a load object of loading.py
LoadObject(f, m0, span) ==
    [_x0 |-> f._x0, _y0 |-> f._y0, _x1 |-> f._x1, _y1 |-> f._y1,
     _m0 |-> m0, span |-> span]

\* loading.PointTorque.__init__
loading_PointTorque(force, coord) ==
    IF ~assert_positive_number(coord) THEN Raised("ValueError", 60)
    ELSE LET expr == Times(Scaled(force), SingularityFunction(coord, -1))
             angle == 90
         IN  Returned("PointTorque",
                 LoadObject(_add_load_functions(angle, expr), Scaled(force),
                            <<coord, coord>>))

\* loading.PointLoad.__init__
loading_PointLoad(force, coord, angle) ==
    IF ~assert_positive_number(coord) THEN Raised("ValueError", 107)
    ELSE LET expr == Times(Scaled(force), SingularityFunction(coord, -1))
             force_y == sin(angle)
         IN  Returned("PointLoad",
                 LoadObject(_add_load_functions(angle, expr),
                            Scaled(force * coord * force_y), <<coord, coord>>))

\* loading.UDL.__init__
loading_UDL(force, span, angle) ==
    IF ~assert_length(span, 2) THEN Raised("ValueError", 152)
    ELSE IF ~assert_positive_number(span[1]) THEN Raised("ValueError", 153)
    ELSE IF ~assert_strictly_positive_number(span[2] - span[1])
    THEN Raised("ValueError", 154)
    ELSE LET expr == Times(Scaled(force),
                           Plus(SingularityFunction(span[1], 0),
                                Times(Scaled(-1), SingularityFunction(span[2], 0))))
             xa == span[1]
             length == span[2] - span[1]
             force_y == sin(angle)
         IN  Returned("UDL",
                 LoadObject(_add_load_functions(angle, expr),
                            (Scaled(force * length * (2 * xa + length)) \div 2)
                                * force_y,
                            span))

\* loading.TrapezoidalLoad.__init__
loading_TrapezoidalLoad(force, span, angle) ==
    IF ~assert_length(force, 2) THEN Raised("ValueError", 212)
    ELSE IF ~assert_length(span, 2) THEN Raised("ValueError", 215)
    ELSE IF ~assert_positive_number(span[1]) THEN Raised("ValueError", 216)
    ELSE IF ~assert_strictly_positive_number(span[2] - span[1])
    THEN Raised("ValueError", 217)
    ELSE LET xa == span[1]
             xb == span[2]
             b == force[2] - force[1]
             length == xb - xa
             UDL_component ==
                 Times(Scaled(force[1]),
                       Plus(SingularityFunction(xa, 0),
                            Times(Scaled(-1), SingularityFunction(xb, 0))))
             slope == Scaled(b) \div length
             triangular_component ==
                 IF force[1] # force[2]
                 THEN Plus(Times(slope, SingularityFunction(xa, 1)),
                      Plus(Times(Scaled(-b), SingularityFunction(xb, 0)),
                           Times(-slope, SingularityFunction(xb, 1))))
                 ELSE Zero
             expr == Plus(triangular_component, UDL_component)
             UDL_m0 == Scaled(force[1] * length * (2 * xa + length)) \div 2
             triangle_m0 == Scaled(b * length * (3 * xa + 2 * length)) \div 6
             force_y == sin(angle)
         IN  Returned("TrapezoidalLoad",
                 LoadObject(_add_load_functions(angle, expr),
                            (UDL_m0 + triangle_m0) * force_y, span))

\* loading.DistributedLoad.__init__, for an expression without singularity
\* functions
loading_DistributedLoad(expr, span, angle) ==
    IF ~assert_length(span, 2) THEN Raised("ValueError", 308)
    ELSE IF ~assert_positive_number(span[1]) THEN Raised("ValueError", 309)
    ELSE IF ~assert_strictly_positive_number(span[2] - span[1])
    THEN Raised("ValueError", 310)
    ELSE LET f == _add_load_functions(angle, expr)
         IN  Returned("DistributedLoad",
                 LoadObject(f, integrate_between(TimesX(f._y0), 0, span[2]),
                            span))

(* -------------------- the loads of indeterminatebeam.py --------------- *)
\* the attributes of a load object of indeterminatebeam.py
XY(ex, ey) == [_x |-> ex, _y |-> ey]

\* PointTorque.__init__
PointTorque(torque, coord) ==
    IF ~assert_positive_number(coord) THEN Raised("ValueError", 165)
    ELSE Returned("PointTorque",
             XY(Zero, Times(Scaled(torque), SingularityFunction(coord, -1))))

\* PointLoad.__init__
PointLoad(force, coord, angle) ==
    IF ~assert_positive_number(coord) THEN Raised("ValueError", 198)
    ELSE LET force_x == force * cos(angle)
             force_y == force * sin(angle)
         IN  Returned("PointLoad",
                 XY(IF force_x # 0
                    THEN Times(Scaled(force_x), SingularityFunction(coord, -1))
                    ELSE Zero,
                    IF force_y # 0
                    THEN Times(Scaled(force_y), SingularityFunction(coord, -1))
                    ELSE Zero))

\* DistributedLoad.__init__
DistributedLoad(expr, span, angle) ==
    IF ~assert_length(span, 2) THEN Raised("ValueError", 257)
    ELSE IF ~assert_positive_number(span[1]) THEN Raised("ValueError", 258)
    ELSE IF ~assert_strictly_positive_number(span[2] - span[1])
    THEN Raised("ValueError", 259)
    ELSE LET force_x == cos(angle)
             force_y == sin(angle)
         IN  Returned("DistributedLoad",
                 XY(IF force_x # 0 THEN Times(Scaled(force_x), expr) ELSE Zero,
                    IF force_y # 0 THEN Times(Scaled(force_y), expr) ELSE Zero))

\* UDL.__init__
UDL(force, span, angle) ==
    IF ~assert_length(span, 2) THEN Raised("ValueError", 290)
    ELSE IF ~assert_positive_number(span[1]) THEN Raised("ValueError", 291)
    ELSE IF ~assert_strictly_positive_number(span[2] - span[1])
    THEN Raised("ValueError", 292)
    ELSE LET force_x == force * cos(angle)
             force_y == force * sin(angle)
             step == Plus(SingularityFunction(span[1], 0),
                          Times(Scaled(-1), SingularityFunction(span[2], 0)))
         IN  Returned("UDL",
                 XY(IF force_x # 0 THEN Times(Scaled(force_x), step) ELSE Zero,
                    IF force_y # 0 THEN Times(Scaled(force_y), step) ELSE Zero))

\* TrapezoidalLoad.__init__: with equal end values it returns a UDL object,
\* and an __init__ that returns anything but None makes the constructor call
\* raise TypeError
TrapezoidalLoad(force, span, angle) ==
    IF ~assert_length(force, 2) THEN Raised("ValueError", 318)
    ELSE IF force[1] = force[2]
    THEN IF UDL(force[1], span, angle).exc # "none"
         THEN UDL(force[1], span, angle)
         ELSE Raised("TypeError", 322)
    ELSE IF ~assert_length(span, 2) THEN Raised("ValueError", 325)
    ELSE IF ~assert_positive_number(span[1]) THEN Raised("ValueError", 326)
    ELSE IF ~assert_strictly_positive_number(span[2] - span[1])
    THEN Raised("ValueError", 327)
    ELSE LET UDL_component == UDL(force[1], span, angle).val
             xa == span[1]
             xb == span[2]
             b == force[2] - force[1]
             slope == Scaled(b) \div (span[2] - span[1])
             force_x == cos(angle)
             force_y == sin(angle)
             triangular_component ==
                 Plus(Times(slope, SingularityFunction(xa, 1)),
                 Plus(Times(Scaled(-b), SingularityFunction(xb, 0)),
                      Times(-slope, SingularityFunction(xb, 1))))
         IN  Returned("TrapezoidalLoad",
                 XY(IF force_x # 0
                    THEN Plus(UDL_component._x,
                              Times(Scaled(force_x), triangular_component))
                    ELSE Zero,
                    IF force_y # 0
                    THEN Plus(UDL_component._y,
                              Times(Scaled(force_y), triangular_component))
                    ELSE Zero))

(* --------------------------- constructor calls ------------------------ *)
Modules == {"indeterminatebeam", "loading"}

\* forces, torques and intensities a caller passes
Forces == (-1)..2

\* spans a caller passes: every pair of coordinates, in either order
Spans == (0..Span) \X (0..Span)

\* expressions a caller passes to DistributedLoad: c0 + c1*x
Expressions ==
    { Plus(Term(Scaled(c0), FALSE, 0, 0), Term(Scaled(c1), FALSE, 0, 1)) :
        c0 \in 0..1, c1 \in 0..1 }

new_PointTorque ==
    \E module \in Modules, torque \in Forces, coord \in (-1)..Span :
        /\ call = NoCall
        /\ ret' = IF module = "loading" THEN loading_PointTorque(torque, coord)
                  ELSE PointTorque(torque, coord)
        /\ call' = Call("PointTorque", <<module, torque, coord>>, FALSE, 0, "")
        /\ UNCHANGED <<_loads, _supports, _query, _reactions, _results,
                     _determinancy,
                     _distributed_forces_x, _distributed_forces_y, analysed>>

new_PointLoad ==
    \E module \in Modules, force \in Forces, coord \in (-1)..Span,
       angle \in Angles :
        /\ call = NoCall
        /\ ret' = IF module = "loading"
                  THEN loading_PointLoad(force, coord, angle)
                  ELSE PointLoad(force, coord, angle)
        /\ call' = Call("PointLoad", <<module, force, coord, angle>>, FALSE, 0, "")
        /\ UNCHANGED <<_loads, _supports, _query, _reactions, _results,
                     _determinancy,
                     _distributed_forces_x, _distributed_forces_y, analysed>>

new_UDL ==
    \E module \in Modules, force \in Forces, span \in Spans, angle \in Angles :
        /\ call = NoCall
        /\ ret' = IF module = "loading" THEN loading_UDL(force, span, angle)
                  ELSE UDL(force, span, angle)
        /\ call' = Call("UDL", <<module, force, span, angle>>, FALSE, 0, "")
        /\ UNCHANGED <<_loads, _supports, _query, _reactions, _results,
                     _determinancy,
                     _distributed_forces_x, _distributed_forces_y, analysed>>

new_TrapezoidalLoad ==
    \E module \in Modules, force \in Forces \X Forces, span \in Spans,
       angle \in Angles :
        /\ call = NoCall
        /\ ret' = IF module = "loading"
                  THEN loading_TrapezoidalLoad(force, span, angle)
                  ELSE TrapezoidalLoad(force, span, angle)
        /\ call' = Call("TrapezoidalLoad", <<module, force, span, angle>>,
                        FALSE, 0, "")
        /\ UNCHANGED <<_loads, _supports, _query, _reactions, _results,
                     _determinancy,
                     _distributed_forces_x, _distributed_forces_y, analysed>>

new_DistributedLoad ==
    \E module \in Modules, expr \in Expressions, span \in Spans,
       angle \in Angles :
        /\ call = NoCall
        /\ ret' = IF module = "loading"
                  THEN loading_DistributedLoad(expr, span, angle)
                  ELSE DistributedLoad(expr, span, angle)
        /\ call' = Call("DistributedLoad", <<module, expr, span, angle>>,
                        FALSE, 0, "")
        /\ UNCHANGED <<_loads, _supports, _query, _reactions, _results,
                     _determinancy,
                     _distributed_forces_x, _distributed_forces_y, analysed>>

(* --------------------------- _get_query_value ------------------------ *)
\* np.linspace(self._x0, self._x1, int(1000)): the number of sample points
SamplePoints == 1000

SetMax(S) == CHOOSE m \in S : \A n \in S : n <= m
SetMin(S) == CHOOSE m \in S : \A n \in S : m <= n
Abs(n) == IF n < 0 THEN -n ELSE n

\* the highest power of an expression
Degree(e) == SetMax({0} \cup { k[3] : k \in DOMAIN e })

\* the value of one shape at x = num/den, times den**d
ShapeAtFraction(k, num, den, d) ==
    IF ~k[1] THEN Power(num, k[3]) * Power(den, d - k[3])
    ELSE IF num < k[2] * den \/ k[3] < 0 THEN 0
    ELSE Power(num - k[2] * den, k[3]) * Power(den, d - k[3])

\* func(num/den) for func = lambdify(x, e), times Unit * den**Degree(e)
RECURSIVE SumTermsAtFraction(_, _, _, _)
SumTermsAtFraction(e, K, num, den) ==
    IF K = {} THEN 0
    ELSE LET k == CHOOSE j \in K : TRUE
         IN  e[k] * ShapeAtFraction(k, num, den, Degree(e))
               + SumTermsAtFraction(e, K \ {k}, num, den)
func(e, num, den) == SumTermsAtFraction(e, DOMAIN e, num, den)

\* round(n / d, 3) in thousandths, for d > 0
round3(n, d) ==
    IF n >= 0 THEN (2000 * n + d) \div (2 * d)
    ELSE -((2000 * (-n) + d) \div (2 * d))

\* sum(sym_func) for a list of expressions
RECURSIVE sum(_)
sum(list) == IF list = <<>> THEN Zero ELSE Plus(Head(list), sum(Tail(list)))

\* _get_query_value with return_min tested before return_max
_get_query_value_min_first(x_coord, sym_func, return_max, return_min, return_absmax) ==
    LET e == IF sym_func.is_list THEN sum(sym_func.val) ELSE sym_func.val[1]
        den == SamplePoints - 1
        scale == Unit * Power(den, Degree(e))
        y_vec == { func(e, _x0 * den + i * (_x1 - _x0), den) :
                     i \in 0..(SamplePoints - 1) }
        min_ == SetMin(y_vec)
        max_ == SetMax(y_vec)
    IN  IF ~(return_absmax \/ return_max \/ return_min)
        THEN Returned("list",
                 [j \in 1..Len(x_coord) |-> round3(func(e, x_coord[j], 1), Unit)])
        ELSE IF return_min THEN Returned("number", <<round3(min_, scale)>>)
        ELSE IF return_max THEN Returned("number", <<round3(max_, scale)>>)
        ELSE Returned("number",
                 <<round3(SetMax({Abs(min_), max_}), scale)>>)

\* Beam._get_query_value: sym_func is a list of expressions (is_list) or one
\* expression (held in val[1]); returns thousandths. The samples are taken at
\* _x0 + i (_x1 - _x0) / (SamplePoints - 1).
_get_query_value(x_coord, sym_func, return_max, return_min, return_absmax) ==
    LET e == IF sym_func.is_list THEN sum(sym_func.val) ELSE sym_func.val[1]
        den == SamplePoints - 1
        scale == Unit * Power(den, Degree(e))
        y_vec == { func(e, _x0 * den + i * (_x1 - _x0), den) :
                     i \in 0..(SamplePoints - 1) }
        min_ == SetMin(y_vec)
        max_ == SetMax(y_vec)
    IN  IF ~(return_absmax \/ return_max \/ return_min)
        THEN Returned("list",
                 [j \in 1..Len(x_coord) |-> round3(func(e, x_coord[j], 1), Unit)])
        ELSE IF return_max THEN Returned("number", <<round3(max_, scale)>>)
        ELSE IF return_min THEN Returned("number", <<round3(min_, scale)>>)
        ELSE Returned("number",
                 <<round3(SetMax({Abs(min_), max_}), scale)>>)

\* The functions queried: the empty list Beam.__init__ leaves in
\* _bending_moments, and expressions an analysis would store: x, 1 - x,
\* -1 - x, and 5 x - 10 <x - L/2>, the bending moment of a beam on two end
\* supports under -10 at midspan.
MidspanMoment ==
    Plus(Term(Scaled(5), FALSE, 0, 1), Term(Scaled(-10), TRUE, Span \div 2, 1))
SymFuncs ==
    { [is_list |-> TRUE, val |-> <<>>],
      [is_list |-> TRUE, val |-> <<Term(Scaled(1), FALSE, 0, 1),
                                   Term(Scaled(-1), FALSE, 0, 0)>>],
      [is_list |-> FALSE, val |-> <<Plus(Term(Scaled(1), FALSE, 0, 0),
                                         Term(Scaled(-1), FALSE, 0, 1))>>],
      [is_list |-> FALSE, val |-> <<Plus(Term(Scaled(-1), FALSE, 0, 0),
                                         Term(Scaled(-1), FALSE, 0, 1))>>],
      [is_list |-> FALSE, val |-> <<MidspanMoment>>] }

\* the coordinates a caller passes to a get_... query
QueryCoords == { <<>>, <<0>>, <<1, Span>> }

get_query_value ==
    \E x_coord \in QueryCoords, sym_func \in SymFuncs,
       return_max \in BOOLEAN, return_min \in BOOLEAN, return_absmax \in BOOLEAN :
        /\ call = NoCall
        /\ ret' = _get_query_value(x_coord, sym_func,
                                   return_max, return_min, return_absmax)
        /\ call' = Call("_get_query_value",
                        <<x_coord, sym_func, return_max, return_min, return_absmax>>,
                        FALSE, 0, "")
        /\ UNCHANGED <<_loads, _supports, _query, _reactions, _results,
                     _determinancy,
                     _distributed_forces_x, _distributed_forces_y, analysed>>

(* ----------------------- _create_distributed_force -------------------- *)
\* one round of the loop with the expression past the interval held at c2
integrate_held(prev, x0, x1) ==
    LET func0 == integrate(prev[1])
        func_1 == Plus(func0, Term(-subs(func0, x0), FALSE, 0, 0))
        c2 == subs(func_1, x1)
    IN  <<func_1, Term(c2, FALSE, 0, 0)>>

\* one round of the loop: prev is the last entry [func, func_2] of func_list.
\* func_1 (func in the source) is the integral of prev's, made 0 at x0;
\* func_2 is the integral of prev's func_2, made equal to func_1 at x1
integrate_pinned(prev, x0, x1) ==
    LET func0 == integrate(prev[1])
        func_1 == Plus(func0, Term(-subs(func0, x0), FALSE, 0, 0))
        func_2_0 == integrate(prev[2])
        c2 == subs(func_1, x1)
        func_2 == Plus(func_2_0, Term(c2 - subs(func_2_0, x1), FALSE, 0, 0))
    IN  <<func_1, func_2>>

\* func_list[n]: [[expr, 0]] and the entries the loop appends to it
RECURSIVE func_list(_, _, _, _)
func_list(expr, x0, x1, n) ==
    IF n = 0 THEN <<expr, Zero>>
    ELSE integrate_pinned(func_list(expr, x0, x1, n - 1), x0, x1)

\* the value at x = at of the Piecewise a (n = 0) and of b, c, d, e (n = 1..4),
\* in units of 1/Unit; the conditions are tried in the order they are written
Piecewise(expr, x0, x1, n, at) ==
    LET fl == func_list(expr, x0, x1, n)
    IN  IF at < x0 THEN 0
        ELSE IF n = 0 THEN (IF at > x1 THEN 0 ELSE subs(fl[1], at))
        ELSE IF at <= x1 THEN subs(fl[1], at)
        ELSE subs(fl[2], at)

\* what is passed as load: a plain pair (expr, interval), or an object of class
\* DistributedLoadV or DistributedLoadH
LoadKinds == {"tuple", "DistributedLoadV", "DistributedLoadH"}

\* Beam._create_distributed_force: a load object can not be unpacked; for a
\* pair the Piecewise objects are built and, the pair being of neither class,
\* nothing is returned
_create_distributed_force(kind, expr, interval) ==
    IF kind # "tuple" THEN Raised("TypeError", 2007)
    ELSE ReturnedNone

create_distributed_force ==
    \E kind \in LoadKinds, expr \in Expressions, interval \in Spans :
        /\ call = NoCall
        /\ ret' = _create_distributed_force(kind, expr, interval)
        /\ call' = Call("_create_distributed_force", <<kind, expr, interval>>,
                        FALSE, 0, "")
        /\ UNCHANGED <<_loads, _supports, _query, _reactions, _results,
                     _determinancy,
                     _distributed_forces_x, _distributed_forces_y, analysed>>

(* ------------- specification of the constructors and helpers ---------- *)
NextObjects ==
    \/ new_Support
    \/ new_PointTorque
    \/ new_PointLoad
    \/ new_UDL
    \/ new_TrapezoidalLoad
    \/ new_DistributedLoad
    \/ get_query_value
    \/ create_distributed_force
    \/ caller_continues

SpecObjects == Init /\ [][NextObjects]_vars

(* ----------------------- vocabulary of the claims --------------------- *)
\* what the caller asked for when constructing the objects
SamePlace(a, p) == Sup(a)._position = p
SameSupportParameters(a, b) ==
    /\ Sup(a)._position = Sup(b)._position
    /\ Sup(a).fixed = Sup(b).fixed
    /\ Sup(a).kx = Sup(b).kx
    /\ Sup(a).ky = Sup(b).ky
SameLoadParameters(a, b) == [Ld(a) EXCEPT !.id = 0] = [Ld(b) EXCEPT !.id = 0]

SupportOutsideSpan(a) == Sup(a)._position < 0 \/ Sup(a)._position > Span
LoadInsideSpan(l) == 0 <= Ld(l).span[1] /\ Ld(l).span[2] <= Span
IsPointLoad(l) == Ld(l).cls \in {"PointLoad", "PointLoadV", "PointLoadH"}

RECURSIVE Sum(_)
Sum(s) == IF s = <<>> THEN 0 ELSE Head(s) + Sum(Tail(s))

B2N(b) == IF b THEN 1 ELSE 0

\* restrained channels of the supports on the beam, from their parameters
AxialRestrained ==
    Sum([k \in 1..Len(_supports) |->
            B2N(Sup(_supports[k]).fixed[1] # 0 \/ Sup(_supports[k]).kx # 0)])
TransverseRotationalRestrained ==
    Sum([k \in 1..Len(_supports) |->
            B2N(Sup(_supports[k]).fixed[2] # 0 \/ Sup(_supports[k]).ky # 0)
            + B2N(Sup(_supports[k]).fixed[3] # 0)])

\* all supports rigid, exactly three restrained channels
RigidDeterminate ==
    /\ \A k \in 1..Len(_supports) :
           Sup(_supports[k]).kx = 0 /\ Sup(_supports[k]).ky = 0
    /\ Sum([k \in 1..Len(_supports) |->
               Sum([i \in 1..3 |-> B2N(Sup(_supports[k]).fixed[i] # 0)])]) = 3

\* transverse component of a load applied at 0 or 90 degrees
TransverseComponent(l) == IF Ld(l).angle = 90 THEN Ld(l).force ELSE 0

AppliedTransverse ==
    Sum([i \in 1..Len(_loads) |-> TransverseComponent(_loads[i])])
AppliedMoment ==
    Sum([i \in 1..Len(_loads) |->
            TransverseComponent(_loads[i]) * Ld(_loads[i]).coord])

\* sums over the stored reaction map
RECURSIVE ReactionTransverse(_)
ReactionTransverse(P) ==
    IF P = {} THEN 0
    ELSE LET p == CHOOSE q \in P : TRUE
         IN  _reactions[p][2] + ReactionTransverse(P \ {p})
RECURSIVE ReactionMoment(_)
ReactionMoment(P) ==
    IF P = {} THEN 0
    ELSE LET p == CHOOSE q \in P : TRUE
         IN  _reactions[p][2] * p + _reactions[p][3] + ReactionMoment(P \ {p})

(* -------------------------------- claims ------------------------------ *)
\* C1: after analyse() on a beam whose supports are all rigid and restrain
\* exactly three channels, carrying point loads inside the span, the stored
\* transverse reactions and the applied transverse loads sum to 0, and so do
\* their moments about x = 0.
C1_Equilibrium ==
    (/\ call.op = "analyse"
     /\ RigidDeterminate
     /\ \A i \in 1..Len(_loads) : IsPointLoad(_loads[i]) /\ LoadInsideSpan(_loads[i]))
    => /\ ReactionTransverse(DOMAIN _reactions) + AppliedTransverse = 0
       /\ ReactionMoment(DOMAIN _reactions) + AppliedMoment = 0

C5_UniquePositions ==
    /\ [](/\ \A j, k \in 1..Len(_supports) :
               j # k => ~SamePlace(_supports[j], Sup(_supports[k])._position)
          /\ \A k \in 1..Len(_supports) : ~SupportOutsideSpan(_supports[k]))
    /\ [][call'.op = "add_supports" =>
            \A n \in 1..Len(call'.args) :
                LET a == call'.args[n]
                IN  (/\ IsSupport(a)
                     /\ \/ SupportOutsideSpan(a)
                        \/ \E k \in 1..Len(_supports) :
                               SamePlace(_supports[k], Sup(a)._position))
                    => /\ Len(SelectSeq(_supports', LAMBDA t : t = a))
                            = Len(SelectSeq(_supports, LAMBDA t : t = a))
                       /\ n = 1 => /\ ret'.exc = "ValueError"
                                   /\ _supports' = _supports]_vars

\* C5 happens: add_supports was refused for a distinct support at a position
\* another support holds
C5_Witness ==
    /\ call.op = "add_supports"
    /\ ret.exc = "ValueError"
    /\ IsSupport(call.args[1])
    /\ call.args[1] \notin Range(_supports)
    /\ \E k \in 1..Len(_supports) :
           SamePlace(_supports[k], Sup(call.args[1])._position)

\* C6: every load on the beam lies inside [0, L], and add_loads raises
\* ValueError for an argument that reaches outside [0, L] and does not add it.
C6_LoadsInsideSpan ==
    /\ \A i \in 1..Len(_loads) : LoadInsideSpan(_loads[i])
    /\ call.op = "add_loads" =>
           \A n \in 1..Len(call.args) :
               ~LoadInsideSpan(call.args[n]) =>
                   ret.exc = "ValueError" /\ call.args[n] \notin Range(_loads)

\* C7: remove_loads (remove_supports) called with objects none of which is
\* on the beam, itself or as an object of the same parameters, raises
\* nothing and leaves loads, supports, query points and results unchanged.
C7_RemoveAbsentIsNoOp ==
    [][(\/ /\ call'.op = "remove_loads"
           /\ \A n \in 1..Len(call'.args), i \in 1..Len(_loads) :
                  /\ call'.args[n] # _loads[i]
                  /\ ~SameLoadParameters(call'.args[n], _loads[i])
        \/ /\ call'.op = "remove_supports"
           /\ \A n \in 1..Len(call'.args), k \in 1..Len(_supports) :
                  /\ call'.args[n] # _supports[k]
                  /\ ~SameSupportParameters(call'.args[n], _supports[k]))
       /\ ~call'.all /\ call'.args # <<>>
       => ret' = ReturnedNone /\ UNCHANGED beam]_vars

\* C7 happens: remove_supports was called, on a beam with loads, supports
\* and query points, with a support that can never have been added
C7_Witness ==
    /\ call.op = "remove_supports"
    /\ ~call.all
    /\ Len(call.args) = 1
    /\ SupportOutsideSpan(call.args[1])
    /\ _loads # <<>> /\ _supports # <<>> /\ _query # <<>>
    /\ ret = ReturnedNone

\* C8: analyse() raises ValueError from its restraint checks, before any
\* equation is formed, exactly when the supports restrain fewer than one
\* axial channel or fewer than two transverse and rotational channels.
C8_DeterminacyError ==
    call.op = "analyse" =>
        ((ret.exc = "ValueError" /\ ret.at < 686)
         <=> (AxialRestrained < 1 \/ TransverseRotationalRestrained < 2))

\* C8 happens: analyse() was refused on a beam with an axial restraint
C8_Witness ==
    /\ call.op = "analyse"
    /\ ret.exc = "ValueError"
    /\ AxialRestrained >= 1
    /\ TransverseRotationalRestrained < 2

\* C10: remove_supports (remove_loads) called with an object that is not on
\* the beam takes off the beam a distinct object built from the same
\* parameters.
C10_RemoveByValue ==
    [][/\ (call'.op = "remove_supports" /\ ~call'.all) =>
              \A n \in 1..Len(call'.args) :
                  (/\ call'.args[n] \notin Range(_supports)
                   /\ \E k \in 1..Len(_supports) :
                          SameSupportParameters(call'.args[n], _supports[k]))
                  => Len(_supports') < Len(_supports)
       /\ (call'.op = "remove_loads" /\ ~call'.all) =>
              \A n \in 1..Len(call'.args) :
                  (/\ call'.args[n] \notin Range(_loads)
                   /\ \E i \in 1..Len(_loads) :
                          SameLoadParameters(call'.args[n], _loads[i]))
                  => Len(_loads') < Len(_loads)]_vars

\* the beam carries exactly one support with these parameters at position p
OnlySupportAt(p, fixed) ==
    \E k \in 1..Len(_supports) :
        /\ Sup(_supports[k])._position = p
        /\ Sup(_supports[k]).fixed = fixed
        /\ Sup(_supports[k]).kx = 0 /\ Sup(_supports[k]).ky = 0

\* the beam carries one load: a transverse point load of this force at x
OnlyPointLoad(force, twice_x) ==
    /\ Len(_loads) = 1
    /\ IsPointLoad(_loads[1])
    /\ Ld(_loads[1]).force = force
    /\ 2 * Ld(_loads[1]).coord = twice_x
    /\ Ld(_loads[1]).angle = 90

\* pin at the left end, roller at the right end, -10 at midspan
SimplySupportedScenario ==
    /\ Len(_supports) = 2
    /\ OnlySupportAt(0, <<1, 1, 0>>)
    /\ OnlySupportAt(Span, <<0, 1, 0>>)
    /\ OnlyPointLoad(-10, Span)

\* fixed support at the left end, -5 at the right end
CantileverScenario ==
    /\ Len(_supports) = 1
    /\ OnlySupportAt(0, <<1, 1, 1>>)
    /\ OnlyPointLoad(-5, 2 * Span)

\* C11: in the simply supported scenario analyse() raises nothing, and
\* get_reaction at either support then returns (0, 5, 0).
C11_SimplySupported ==
    (call.op = "analyse" /\ SimplySupportedScenario)
    => /\ ret.exc = "none"
       /\ get_reaction_result(_reactions, 0, "") = Returned("list", <<0, 5, 0>>)
       /\ get_reaction_result(_reactions, Span, "") = Returned("list", <<0, 5, 0>>)

\* C13: in the cantilever scenario analyse() raises nothing, and
\* get_reaction(0) then returns (0, 5, -5 L), which is (0, 5, -20) for L = 4.
C13_Cantilever ==
    (call.op = "analyse" /\ CantileverScenario)
    => /\ ret.exc = "none"
       /\ get_reaction_result(_reactions, 0, "")
              = Returned("list", <<0, 5, -5 * Span>>)

\* C16: a Support built from flags of 0 and 1 and stiffnesses kx, ky >= 0
\* (0: not given) has, channel by channel: with a positive stiffness a spring
\* (that stiffness, _DOF 1, _fixed 0) whatever the flag; else with flag 1 a
\* rigid channel (stiffness oo, _DOF 1, _fixed 1); else a free channel
\* (stiffness 0, _DOF 0, _fixed 0). The rotational channel is rigid or free,
\* and _fixed[i] = 1 implies _DOF[i] = 1.
C16_SupportChannels ==
    (/\ call.op = "Support"
     /\ call.args[1] >= 0 /\ call.args[3] >= 0 /\ call.args[4] >= 0
     /\ call.args[2] \in [1..3 -> {0, 1}])
    => /\ ret.exc = "none"
       /\ LET flag == call.args[2]
              k == <<call.args[3], call.args[4], 0>>
              s == ret.val
          IN  \A i \in 1..3 :
                /\ k[i] > 0 =>
                     s._stiffness[i] = k[i] /\ s._DOF[i] = 1 /\ s._fixed[i] = 0
                /\ (k[i] = 0 /\ flag[i] = 1) =>
                     s._stiffness[i] = oo /\ s._DOF[i] = 1 /\ s._fixed[i] = 1
                /\ (k[i] = 0 /\ flag[i] = 0) =>
                     s._stiffness[i] = 0 /\ s._DOF[i] = 0 /\ s._fixed[i] = 0
                /\ s._fixed[i] = 1 => s._DOF[i] = 1
                /\ i = 3 => s._stiffness[i] \in {0, oo}

\* C16 happens: a support was built with a stiffness on a channel whose flag
\* is 1, a rigid and a free channel
C16_Witness ==
    /\ call.op = "Support"
    /\ ret.exc = "none"
    /\ call.args[2] = <<1, 0, 1>>
    /\ call.args[3] > 0 /\ call.args[4] = 0
    /\ ret.val._fixed = <<0, 0, 1>>
    /\ ret.val._DOF = <<1, 0, 1>>

\* the arguments of a constructor call of a load: module, then the
\* constructor's own arguments
ValidSpan(span) == 0 <= span[1] /\ span[1] < span[2] /\ span[2] <= Span

\* the axial and the transverse intensity a load object exposes
AxialIntensity(module, obj) == IF module = "loading" THEN obj._x0 ELSE obj._x
TransverseIntensity(module, obj) == IF module = "loading" THEN obj._y0 ELSE obj._y

\* C14: TrapezoidalLoad((q, q), (a, b), angle) with 0 <= a < b <= L is built
\* without error and has the attributes of UDL(q, (a, b), angle) of the same
\* module.
C14_TrapezoidEqualEnds ==
    (/\ call.op = "TrapezoidalLoad"
     /\ call.args[2][1] = call.args[2][2]
     /\ ValidSpan(call.args[3]))
    => /\ ret.exc = "none"
       /\ ret.val = (IF call.args[1] = "loading"
                     THEN loading_UDL(call.args[2][1], call.args[3], call.args[4])
                     ELSE UDL(call.args[2][1], call.args[3], call.args[4])).val

\* C17: a point torque has an axial and a transverse intensity that are both
\* identically zero, and adds nothing to the shear force.
C17_TorqueNoTransverse ==
    (call.op = "PointTorque" /\ ret.exc = "none")
    => /\ AxialIntensity(call.args[1], ret.val) = Zero
       /\ TransverseIntensity(call.args[1], ret.val) = Zero
       /\ call.args[1] = "loading" => ret.val._y1 = Zero

\* C18: DistributedLoad(f, (a, b), angle) has the transverse intensity
\* f(x) sin(angle) and the axial intensity f(x) cos(angle) at every x of
\* [a, b], and 0 at every x < a and every x > b.
C18_DistributedLoadClipped ==
    (/\ call.op = "DistributedLoad"
     /\ ret.exc = "none"
     /\ ValidSpan(call.args[3]))
    => LET f == call.args[2]
           a == call.args[3][1]
           b == call.args[3][2]
           angle == call.args[4]
       IN  \A at \in 0..Span :
             /\ subs(TransverseIntensity(call.args[1], ret.val), at)
                  = IF a <= at /\ at <= b THEN subs(f, at) * sin(angle) ELSE 0
             /\ subs(AxialIntensity(call.args[1], ret.val), at)
                  = IF a <= at /\ at <= b THEN subs(f, at) * cos(angle) ELSE 0

\* C19: the moment about x = 0 a load of loading.py exposes is
\* F sin(angle) a for a point load at a, q (b-a) (a+b)/2 sin(angle) for a UDL
\* over [a, b], and the integral from a to b of f(x) x sin(angle) for a
\* DistributedLoad f over [a, b].
C19_MomentAboutOrigin ==
    (/\ call.op \in {"PointLoad", "UDL", "DistributedLoad"}
     /\ call.args[1] = "loading"
     /\ ret.exc = "none")
    => /\ call.op = "PointLoad" =>
            ret.val._m0
              = Scaled(call.args[2] * sin(call.args[4]) * call.args[3])
       /\ call.op = "UDL" =>
            LET q == call.args[2]
                a == call.args[3][1]
                b == call.args[3][2]
            IN  2 * ret.val._m0
                  = Scaled(q * (b - a) * (a + b) * sin(call.args[4]))
       /\ (call.op = "DistributedLoad" /\ ValidSpan(call.args[3])) =>
            ret.val._m0
              = integrate_between(TimesX(call.args[2]),
                                  call.args[3][1], call.args[3][2])
                  * sin(call.args[4])

\* the sampled values of the function a query is made of (times
\* QueryScale), over SamplePoints evenly spaced points of [0, L]
QueryFunction == sum(call.args[2].val)
QueryScale == Unit * Power(SamplePoints - 1, Degree(QueryFunction))
QuerySamples ==
    { func(QueryFunction, i * Span, SamplePoints - 1) : i \in 0..(SamplePoints - 1) }

IntegralPoints == (-1)..(Span + 2)

\* a call of _create_distributed_force that gets to build the integrals of a
\* load over an interval [a, b] with a < b
BuildsIntegrals ==
    /\ call.op = "_create_distributed_force"
    /\ call.args[1] = "tuple"
    /\ call.args[3][1] < call.args[3][2]

RestrainedChannels(i) ==
    Cardinality({ k \in 1..Len(_supports) : Sup(_supports[k])._stiffness[i] # 0 })
UsableEquations ==
    3 - B2N(RestrainedChannels(1) = 0) - B2N(RestrainedChannels(2) = 0)

\* C21: check_determinancy() returns an integer, the number of restrained
\* support channels minus the number of usable equilibrium equations
\* (negative for an unstable beam, 0 for a determinate one, positive for an
\* indeterminate one).
C21_DeterminacyNumber ==
    call.op = "check_determinancy" =>
        ret = Returned("number",
                  <<RestrainedChannels(1) + RestrainedChannels(2)
                      + RestrainedChannels(3) - UsableEquations>>)

\* C22: constructing a Support with a stiffness kx or ky that is not
\* positive, or with a fixed tuple that is not three 0/1 values, raises an
\* error and produces no object.
C22_InvalidInputRaises ==
    (/\ call.op = "Support"
     /\ \/ call.args[5][1] /\ call.args[3] <= 0
        \/ call.args[5][2] /\ call.args[4] <= 0
        \/ call.args[2] \notin [1..3 -> {0, 1}])
    => ret.exc # "none" /\ ret.obj = "None"

\* C23: after remove_supports(s1, ..., sn) none of s1..sn is on the beam,
\* also when some of them are adjacent in the support list, and the supports
\* not listed remain in their order.
C23_RemoveSupportsRemovesListed ==
    [][(call'.op = "remove_supports" /\ ~call'.all)
       => _supports' = SelectSeq(_supports,
                                 LAMBDA s : s \notin Range(call'.args))]_vars

\* the axial-restrained support of the beam with the smallest position
ReferenceSupport ==
    CHOOSE s \in Range(_supports) :
        /\ Sup(s)._stiffness[1] # 0
        /\ \A t \in Range(_supports) :
               Sup(t)._stiffness[1] # 0 => Sup(s)._position <= Sup(t)._position

\* C24: the reference support of the axial subsystem is the axial-restrained
\* support with the smallest position, whatever order the supports were
\* added in: the compatibility equations use its reaction and stiffness, and
\* the initial axial displacement is its solved reaction divided by its
\* stiffness (0 when it is rigid).
C24_AxialReference ==
    (/\ call.op = "analyse"
     /\ determinacy_error(_supports).exc = "none") =>
        /\ compatibility_reference(_supports) = ReferenceSupport
        /\ LET d == initial_displacement_x(_supports)
           IN  IF Sup(ReferenceSupport)._stiffness[1] = oo THEN d.zero
               ELSE /\ ~d.zero
                    /\ d.reaction_of = ReferenceSupport
                    /\ d.stiffness = Sup(ReferenceSupport)._stiffness[1]

\* a distributed load, of either module
IsDistributedLoad(l) ==
    Ld(l).cls \in {"DistributedLoad", "DistributedLoadV", "DistributedLoadH",
                   "UDL", "TrapezoidalLoad"}

\* C26: the cache of distributed-force integrals holds an entry for each
\* distributed load that is on the beam and none for a load that is not.
C26_CacheTracksLoads ==
    \A l \in LoadIds :
        IsDistributedLoad(l) =>
            (l \in Range(_loads)
             <=> l \in DOMAIN _distributed_forces_x \cup DOMAIN _distributed_forces_y)

\* C29: an analyse() that fails with a determinacy error leaves the beam
\* unchanged: loads, supports, query points, the reaction map and the result
\* functions are as before, and get_reaction answers from that map.
C29_FailedAnalyseLeavesBeam ==
    [][(/\ call'.op = "analyse"
        /\ ret'.exc = "ValueError" /\ ret'.at \in {671, 676})
       => /\ UNCHANGED beam
          /\ \A p \in 0..Span :
                 get_reaction_result(_reactions', p, "")
                     = get_reaction_result(_reactions, p, "")]_vars

\* C29 happens: analyse() was refused on a beam that has loads, supports and
\* query points
C29_Witness ==
    /\ call.op = "analyse"
    /\ ret.exc = "ValueError" /\ ret.at \in {671, 676}
    /\ _loads # <<>> /\ _supports # <<>> /\ _query # <<>>

\* a list without the earliest occurrence of l, and a list with the earliest
\* occurrence of each of the listed loads taken off in turn
WithoutEarliest(seq, l) ==
    IF \A i \in 1..Len(seq) : seq[i] # l THEN seq
    ELSE LET k == CHOOSE i \in 1..Len(seq) :
                      seq[i] = l /\ \A j \in 1..(i - 1) : seq[j] # l
         IN  [i \in 1..(Len(seq) - 1) |-> IF i < k THEN seq[i] ELSE seq[i + 1]]

RECURSIVE WithoutEarliestOfEach(_, _)
WithoutEarliestOfEach(seq, listed) ==
    IF listed = <<>> THEN seq
    ELSE WithoutEarliestOfEach(WithoutEarliest(seq, Head(listed)), Tail(listed))

C27_WitnessRemoveAll ==
    /\ call.op = "remove_loads"
    /\ call.all
    /\ call.args # <<>>
    /\ _loads = <<>>

\* an argument add_supports does not accept on a beam with these supports: no
\* Support, a support outside the span, or one at a position that is taken
InvalidSupportArgument(sups, s) ==
    \/ s \notin SupportIds
    \/ Sup(s)._position < 0 \/ Sup(s)._position > Span
    \/ \E k \in 1..Len(sups) : Sup(sups[k])._position = Sup(s)._position

C30_QueryPoints ==
    [][/\ \A i \in 1..Len(_query') : 0 <= _query'[i] /\ _query'[i] <= Span
       /\ call'.op \in {"add_query_points", "remove_query_points"} =>
              ret'.exc = "none"
       /\ call'.op = "add_query_points" =>
              \E k \in 1..(Len(call'.args) + 1) :
                  /\ \A j \in 1..(k - 1) :
                         0 <= call'.args[j] /\ call'.args[j] <= Span
                  /\ _query' = _query \o SubSeq(call'.args, 1, k - 1)
                  /\ IF k > Len(call'.args) THEN ret' = ReturnedNone
                     ELSE /\ call'.args[k] < 0 \/ call'.args[k] > Span
                          /\ ret'.obj = "ValueError"
       /\ (call'.op = "remove_query_points" /\ ~call'.all) =>
              \E k \in 1..(Len(call'.args) + 1) :
                  /\ _query' = WithoutEarliestOfEach(
                                   _query, SubSeq(call'.args, 1, k - 1))
                  /\ Len(_query') = Len(_query) - (k - 1)
                  /\ IF k > Len(call'.args) THEN ret' = ReturnedNone
                     ELSE /\ call'.args[k] \notin Range(_query')
                          /\ ret'.obj = "ValueError"
       /\ (call'.op = "remove_query_points" /\ call'.all) =>
              _query' = <<>> /\ ret' = ReturnedNone]_vars

\* C30 happens: add_query_points stopped at its second coordinate, which is
\* outside the beam, returned a ValueError and left the first one added
C30_Witness ==
    /\ call.op = "add_query_points"
    /\ Len(call.args) = 2
    /\ call.args[2] > Span
    /\ ret.exc = "none" /\ ret.obj = "ValueError"
    /\ _query = <<call.args[1]>>

====
